---- MODULE Spec2Model ----
(***************************************************************************)
(* Model of the wallet-signing benchmark harness: the discovered-services  *)
(* pipeline (utils/serviceLoader.js) and the three benchmark scripts built *)
(* on it (benchmark-signmessage.js, benchmark-signtransaction-new.js,      *)
(* benchmark-new.js).                                                      *)
(*                                                                         *)
(* One run of one script is one behaviour.  Every external call (an        *)
(* await, a file-system call) and every loop exit of the script is one     *)
(* step.  What the outside world answers (module load, initialize,         *)
(* createWallet, a signing call and its duration, the geolocation lookup,  *)
(* the file system) is chosen with \E.                                     *)
(*                                                                         *)
(* JavaScript values:                                                      *)
(*   - an object used as a map is a sequence of [key, value] entries in    *)
(*     insertion order (the order Object.keys / Object.entries give for    *)
(*     non-numeric string keys);                                           *)
(*   - a duration is a natural number of milliseconds;                     *)
(*   - a computed number is [kind, num, den]: the rational num/den when    *)
(*     kind = "number", otherwise NaN, Infinity, -Infinity or undefined.   *)
(***************************************************************************)
EXTENDS Integers, Sequences, FiniteSets, TLC

(***************************************************************************)
(* Bounds of the model.                                                    *)
(***************************************************************************)
MaxServices == 3
MaxIterations == 2
MaxWarmup == 1
MaxDuration == 2
\* Bits of significand of a number.
Precision == 13
\* Longest array given to calculateStats on its own.
MaxSample == 5
\* Longest sorted array whose percentile indices are computed on their own.
MaxLength == 200
\* Budget of signing calls of a run in which nothing fails:
\* directories * phases * (warmupIterations + iterations).
MaxCalls == 6

\* Instants at which a report may be saved (the timestamp of its filename).
MaxStamp == 4

\* Directory names as fs.readdirSync lists them (the order is the file
\* system's, not alphabetical); a run sees a prefix of this listing.
DirNames == <<"turnkey", "privy", "coinbase", "dfns", "fireblocks">>

DirSet == {DirNames[k] : k \in 1..Len(DirNames)}

\* What the module of each directory exports as `serviceName`.  "" stands
\* for a missing (undefined) or empty export: both are falsy in
\* `serviceName || dir`.  privy and coinbase are the modules of the
\* repository; the other directories are modules a user may add: two with
\* no serviceName and one that exports a name already in use.
NoServiceName == ""
ExportedName ==
    [d \in DirSet |->
        CASE d = "privy" -> "Privy"
          [] d = "coinbase" -> "Coinbase"
          [] d = "dfns" -> "Privy"
          [] OTHER -> NoServiceName]

\* The two directories whose modules export the same serviceName, as a
\* listing of their own.
SameNameDirs == <<"dfns", "privy">>

\* The listings a run may find in the services directory.
Listings == {SubSeq(DirNames, 1, n) : n \in 0..MaxServices} \cup {SameNameDirs}

Durations == 1..MaxDuration

Variants == {"message", "transaction", "comprehensive"}

VARIABLES
    variant,              \* which script runs
    config,               \* BENCHMARK_CONFIG: operation ->
                          \*   [iterations, warmupIterations]
    serviceDirs,          \* the services directory: sequence of directory names
    pc,                   \* position of the main function
    idx,                  \* index of the current for-of loop
    geoLocation,          \* value returned by getGeoLocation
    services,             \* discoverServices: dir -> module
    imports,              \* history: the directories discoverServices tried,
                          \*   each with whether its module loaded
    initializedServices,  \* initializeServices: dir -> {name, module, instance}
    wallets,              \* createWalletsForServices: dir -> wallet
    phase,                \* operation being benchmarked: index into Phases
    hpc,                  \* position inside the timing harness
    i,                    \* loop counter of the harness
    times,                \* the harness's `times` array
    calls,                \* history: duration of every call of this harness run
    timed,                \* history: what ran between start and end of the
                          \*   latest measured iteration
    initCalls,            \* history: dir -> number of initializeService calls
    walletCalls,          \* history: dir -> number of createWallet calls
    signCalls,            \* history: dir -> number of signMessage and
                          \*   signTransaction calls
    log,                  \* history: the external calls, each as the event
                          \*   of its start and the event of its end
    serviceResults,       \* phase -> (service.name -> statistics)
    rawTimes,             \* phase -> (service.name -> times)
    report,               \* the results file, NoReport until written
    exitCode,             \* process exit code, NoExit while running
    error,                \* what reached the top-level catch, NoError if nothing
    sample,               \* an array of durations handed to calculateStats
    sampleStats,          \* what calculateStats returned for it
    length,               \* the length of a sorted array
    indices               \* the percentile indices computed for that length

\* The state of a run of a benchmark script.
VARIABLES
    script,               \* saveResults on its own: the script it belongs to
    stamp,                \* the instant new Date() returns
    directories,          \* directories that exist under the working directory
    files,                \* files written, each [dir, name]
    mkdirs,               \* history: directories created by mkdirSync
    saveState             \* "idle", "pending", "saved" or "failed"

VARIABLES
    legacyScript,         \* a legacy script on its own: which one runs
    env,                  \* the environment variables that are set
    lpc,                  \* position of the legacy script
    legacyWallets,        \* history: the providers a wallet was created for
    legacyCalls,          \* history: number of signing calls made
    legacyExit            \* exit code of the legacy script

runVars == <<variant, config, serviceDirs, pc, idx, geoLocation, services,
             imports,
             initializedServices, wallets, phase, hpc, i, times, calls,
             timed, initCalls, walletCalls, signCalls, log,
             serviceResults, rawTimes, report, exitCode, error>>

\* The argument and the result of a call of calculateStats on its own.
statsVars == <<sample, sampleStats>>

\* The operands and the result of the percentile index on its own.
indexVars == <<length, indices>>

saveVars == <<script, stamp, directories, files, mkdirs, saveState>>

legacyVars == <<legacyScript, env, lpc, legacyWallets, legacyCalls,
                legacyExit>>

vars == <<runVars, statsVars, indexVars, saveVars, legacyVars>>

(***************************************************************************)
(* JavaScript objects as insertion-ordered maps.                           *)
(***************************************************************************)
EmptyObject == <<>>

ObjKeys(o) == [k \in 1..Len(o) |-> o[k].key]

ObjKeySet(o) == {o[k].key : k \in 1..Len(o)}

ObjHas(o, key) == \E k \in 1..Len(o) : o[k].key = key

ObjGet(o, key) == o[CHOOSE k \in 1..Len(o) : o[k].key = key].value

\* o[key] = value: an existing key keeps its position, a new key goes last.
ObjSet(o, key, value) ==
    IF ObjHas(o, key)
    THEN [k \in 1..Len(o) |->
            IF o[k].key = key THEN [key |-> key, value |-> value] ELSE o[k]]
    ELSE Append(o, [key |-> key, value |-> value])

(***************************************************************************)
(* JavaScript numbers.  A number is an IEEE-754 binary floating-point      *)
(* value: [kind, m, e] stands for m * 2^e when kind = "number", with m = 0 *)
(* and e = 0 for zero and 2^(Precision-1) <= |m| < 2^Precision otherwise.  *)
(* Every arithmetic operation rounds its exact result to the nearest such  *)
(* value, ties to even, as the operations of the language do; the model    *)
(* keeps Precision bits of significand where a double keeps 53.            *)
(***************************************************************************)
NaN == [kind |-> "NaN", m |-> 0, e |-> 0]
Infinity == [kind |-> "Infinity", m |-> 0, e |-> 0]
NegInfinity == [kind |-> "-Infinity", m |-> 0, e |-> 0]
Undefined == [kind |-> "undefined", m |-> 0, e |-> 0]

IsNumber(x) == x.kind = "number"

RECURSIVE Pow2(_)
Pow2(k) == IF k = 0 THEN 1 ELSE 2 * Pow2(k - 1)

Abs(k) == IF k < 0 THEN 0 - k ELSE k

\* A non-zero significand m has MinSignificand <= |m| < SignificandLimit.
MinSignificand == Pow2(Precision - 1)
SignificandLimit == Pow2(Precision)

RECURSIVE RoundPositive(_, _, _, _)
\* The number nearest to sign * (n / d) * 2^e, for n > 0 and d > 0: the
\* quotient is first brought between MinSignificand and SignificandLimit,
\* six binary places at a time while that many are missing.
RoundPositive(sign, n, d, e) ==
    IF n < (d * MinSignificand) \div 64
    THEN RoundPositive(sign, 64 * n, d, e - 6)
    ELSE IF n < d * MinSignificand THEN RoundPositive(sign, 2 * n, d, e - 1)
    ELSE IF n \div 64 >= d * SignificandLimit
    THEN RoundPositive(sign, n, 64 * d, e + 6)
    ELSE IF n >= d * SignificandLimit THEN RoundPositive(sign, n, 2 * d, e + 1)
    ELSE LET q == n \div d
             r == n % d
             up == 2 * r > d \/ (2 * r = d /\ q % 2 = 1)
             m == IF up THEN q + 1 ELSE q
         IN  IF m = SignificandLimit
             THEN [kind |-> "number", m |-> sign * MinSignificand,
                   e |-> e + 1]
             ELSE [kind |-> "number", m |-> sign * m, e |-> e]

\* The number nearest to (n / d) * 2^e, for d > 0.
Round(n, d, e) ==
    IF n = 0 THEN [kind |-> "number", m |-> 0, e |-> 0]
    ELSE RoundPositive(IF n < 0 THEN -1 ELSE 1, Abs(n), d, e)

\* The number a numeric literal or an integer n / d denotes.
Number(n, d) == Round(n, d, 0)

\* x === y, x < y, x <= y on numbers.
NumEq(x, y) == x.m = y.m /\ x.e = y.e
NumLess(x, y) ==
    IF x.m = 0 \/ y.m = 0 \/ (x.m < 0) # (y.m < 0) THEN x.m < y.m
    ELSE IF x.m > 0 THEN x.e < y.e \/ (x.e = y.e /\ x.m < y.m)
    ELSE x.e > y.e \/ (x.e = y.e /\ x.m < y.m)
NumLeq(x, y) == NumEq(x, y) \/ NumLess(x, y)

Neg(x) == [x EXCEPT !.m = 0 - x.m]

\* x + y.  An operand more than Precision + 1 binary places below the
\* other does not change the rounded sum.
Add(x, y) ==
    IF x.m = 0 THEN y
    ELSE IF y.m = 0 THEN x
    ELSE IF x.e - y.e > Precision + 1 THEN x
    ELSE IF y.e - x.e > Precision + 1 THEN y
    ELSE LET e == IF x.e < y.e THEN x.e ELSE y.e
         IN  Round(x.m * Pow2(x.e - e) + y.m * Pow2(y.e - e), 1, e)

\* x - y
Sub(x, y) == Add(x, Neg(y))

\* x * y
Mul(x, y) == Round(x.m * y.m, 1, x.e + y.e)

\* x / n for an integer n (a length, or 2); 0 / 0 is NaN.
Div(x, n) ==
    IF n = 0 THEN NaN ELSE Round(x.m, n, x.e)

\* Mutant of Floor: Math.ceil.
Ceiling(x) ==
    IF x.e >= 0 THEN x.m * Pow2(x.e)
    ELSE (x.m + Pow2(0 - x.e) - 1) \div Pow2(0 - x.e)

\* Math.floor(x) as an integer, for x >= 0.
Floor(x) ==
    IF x.e >= 0 THEN x.m * Pow2(x.e) ELSE x.m \div Pow2(0 - x.e)

RECURSIVE ISqrt(_, _, _)
\* The integer r with lo <= r < hi and r * r <= n < (r + 1) * (r + 1).
ISqrt(n, lo, hi) ==
    IF hi - lo <= 1 THEN lo
    ELSE LET mid == (lo + hi) \div 2
         IN  IF mid * mid <= n THEN ISqrt(n, mid, hi) ELSE ISqrt(n, lo, mid)

\* Mutant of Sqrt: the variance is returned as it is.
SqrtOmitted(x) == x

\* Math.sqrt(x) for x >= 0, correctly rounded: the significand is scaled to
\* 2 * Precision - 1 or 2 * Precision bits, with an even exponent.
Sqrt(x) ==
    IF ~IsNumber(x) THEN NaN
    ELSE IF x.m = 0 THEN x
    ELSE LET shift == IF (x.e - (Precision - 1)) % 2 = 0
                      THEN Precision - 1 ELSE Precision
             n == x.m * Pow2(shift)
             e == x.e - shift
             r == ISqrt(n, MinSignificand, SignificandLimit)
         IN  Round(IF n > r * r + r THEN r + 1 ELSE r, 1, e \div 2)

RECURSIVE SumSeq(_)
\* times.reduce((a, b) => a + b, 0): the array is folded from the left.
SumSeq(s) ==
    IF s = <<>> THEN Number(0, 1)
    ELSE Add(SumSeq(SubSeq(s, 1, Len(s) - 1)), s[Len(s)])

RECURSIVE SumSquares(_, _)
\* times.reduce((acc, time) => acc + Math.pow(time - mean, 2), 0)
SumSquares(s, mean) ==
    IF s = <<>> THEN Number(0, 1)
    ELSE Add(SumSquares(SubSeq(s, 1, Len(s) - 1), mean),
             Mul(Sub(s[Len(s)], mean), Sub(s[Len(s)], mean)))

RECURSIVE InsertAsc(_, _)
InsertAsc(sorted, x) ==
    IF sorted = <<>> THEN <<x>>
    ELSE IF NumLess(x, Head(sorted)) THEN <<x>> \o sorted
    ELSE <<Head(sorted)>> \o InsertAsc(Tail(sorted), x)

RECURSIVE SortAsc(_)
\* [...times].sort((a, b) => a - b)
SortAsc(s) ==
    IF s = <<>> THEN <<>> ELSE InsertAsc(SortAsc(Tail(s)), Head(s))

\* Math.min(...times), Math.max(...times) of a non-empty array.
SeqMin(s) == CHOOSE x \in {s[k] : k \in 1..Len(s)} :
                \A y \in {s[k] : k \in 1..Len(s)} : NumLeq(x, y)
SeqMax(s) == CHOOSE x \in {s[k] : k \in 1..Len(s)} :
                \A y \in {s[k] : k \in 1..Len(s)} : NumLeq(y, x)

\* Mutant of P99: the literal 1.
WholeLength == Number(1, 1)

\* Mutant of P95: the literal 0.25.
Quarter == Number(1, 4)

\* The literals 0.95 and 0.99.
P95 == Number(95, 100)
P99 == Number(99, 100)

\* Math.floor(n * p) for the length n of the sorted array.
PercentileIndex(n, p) == Floor(Mul(Number(n, 1), p))

\* sorted[Math.floor(sorted.length * p)]: undefined past the end.
Percentile(sorted, p) ==
    LET index == PercentileIndex(Len(sorted), p)
    IN  IF index < Len(sorted) THEN sorted[index + 1] ELSE Undefined

\* Mutant of calculateStats: the median is always sorted[Math.floor(n / 2)].
calculateStatsUpperMedian(ts) ==
    LET n == Len(ts)
        sorted == SortAsc(ts)
        sum == SumSeq(ts)
        mean == Div(sum, n)
        variance == IF n = 0 THEN NaN ELSE Div(SumSquares(ts, mean), n)
        standardDeviation == Sqrt(variance)
        median == IF n = 0 THEN NaN ELSE sorted[n \div 2 + 1]
    IN  [min |-> IF n = 0 THEN Infinity ELSE SeqMin(ts),
         max |-> IF n = 0 THEN NegInfinity ELSE SeqMax(ts),
         mean |-> mean,
         median |-> median,
         standardDeviation |-> standardDeviation,
         p95 |-> Percentile(sorted, P95),
         p99 |-> Percentile(sorted, P99)]

calculateStats(ts) ==
    LET n == Len(ts)
        sorted == SortAsc(ts)
        sum == SumSeq(ts)
        mean == Div(sum, n)
        variance == IF n = 0 THEN NaN ELSE Div(SumSquares(ts, mean), n)
        standardDeviation == Sqrt(variance)
        median == IF n = 0 THEN NaN
                  ELSE IF n % 2 = 0
                       THEN Div(Add(sorted[n \div 2], sorted[n \div 2 + 1]), 2)
                       ELSE sorted[n \div 2 + 1]
    IN  [min |-> IF n = 0 THEN Infinity ELSE SeqMin(ts),
         max |-> IF n = 0 THEN NegInfinity ELSE SeqMax(ts),
         mean |-> mean,
         median |-> median,
         standardDeviation |-> standardDeviation,
         p95 |-> Percentile(sorted, P95),
         p99 |-> Percentile(sorted, P99)]

\* end - start of performance.now(), in whole milliseconds, as numbers.
Millis(ts) == [k \in 1..Len(ts) |-> Number(ts[k], 1)]

(***************************************************************************)
(* The scripts and their configuration.                                    *)
(***************************************************************************)
\* Mutant of Phases: the comprehensive script signs transactions first.
PhasesTransactionFirst(v) ==
    CASE v = "message" -> <<"message">>
      [] v = "transaction" -> <<"transaction">>
      [] v = "comprehensive" -> <<"transaction", "message">>

\* The operations a script benchmarks, in the order it benchmarks them.
Phases(v) ==
    CASE v = "message" -> <<"message">>
      [] v = "transaction" -> <<"transaction">>
      [] v = "comprehensive" -> <<"message", "transaction">>

Operation == Phases(variant)[phase]

RECURSIVE SumCalls(_, _)
SumCalls(ops, c) ==
    IF ops = <<>> THEN 0
    ELSE c[Head(ops)].warmupIterations + c[Head(ops)].iterations
           + SumCalls(Tail(ops), c)

\* The signing calls a script makes per provider when nothing fails.
CallsPerService(v, c) == SumCalls(Phases(v), c)

BenchmarkType(v) ==
    CASE v = "message" -> "message_signing"
      [] v = "transaction" -> "transaction_signing"
      [] v = "comprehensive" -> "comprehensive"

NoReport == [written |-> FALSE]
NoExit == -1
NoError == "none"

\* The returns of getGeoLocation: the location, or the marker
\* {success: false, error: <message>} built when the lookup answers with a
\* failure status and in the catch (network or HTTP error).
GeoResults ==
    {[success |-> TRUE, error |-> ""],
     [success |-> FALSE, error |-> "message"]}

(***************************************************************************)
(* Provider modules (services/<dir>/index.js).                             *)
(***************************************************************************)
\* What signMessage(wallet, message) does: one request to the provider.
signMessage == <<"signMessage">>

\* What signTransaction(wallet, transactionConfig) does: it fetches the
\* latest block hash, builds the transfer and then asks for the signature.
signTransaction == <<"getLatestBlockhash", "buildTransaction", "signTransaction">>

ProviderCall(op) == IF op = "message" THEN signMessage ELSE signTransaction

\* One measured iteration of the harness:
\*   start = performance.now(); await serviceModule.sign...(); end = ...
MeasuredIteration(op) == <<"start">> \o ProviderCall(op) \o <<"end">>

NoStats == [computed |-> FALSE]
NoIndex == [computed |-> FALSE]

\* calculateStats is not being looked at on its own.
StatsIdle ==
    /\ sample = <<>>
    /\ sampleStats = NoStats

\* The percentile index is not being looked at on its own.
IndexIdle ==
    /\ length = 0
    /\ indices = NoIndex

\* The scripts that save a report.  benchmark.js holds two scripts, the
\* second one with the geolocation lookup.
Scripts ==
    {"benchmark-signmessage.js", "benchmark-signtransaction-new.js",
     "benchmark-new.js", "benchmark.js (1)", "benchmark.js (2)",
     "benchmark-signtransaction.js"}

\* No saveResults runs.
SaveIdle ==
    /\ script = "benchmark-signmessage.js"
    /\ stamp = 1
    /\ directories = {}
    /\ files = {}
    /\ mkdirs = <<>>
    /\ saveState = "idle"

\* The legacy scripts: the benchmarks with the Turnkey and Privy clients
\* wired in, and the scripts that sign once with one provider.
HardWired ==
    {"benchmark.js (1)", "benchmark.js (2)", "benchmark-signtransaction.js (1)"}

OneShot ==
    {"turnkey.js (1)", "turnkey.js (2)", "turnkey-transaction.js",
     "benchmark-signtransaction.js (2)"}

LegacyScripts == HardWired \cup OneShot

\* No legacy script runs.
LegacyIdle ==
    /\ legacyScript = "benchmark.js (1)"
    /\ env = {}
    /\ lpc = "idle"
    /\ legacyWallets = <<>>
    /\ legacyCalls = 0
    /\ legacyExit = NoExit

(***************************************************************************)
(* Initial state: a script, its configuration and a services directory.    *)
(***************************************************************************)
Init ==
    /\ variant \in Variants
    /\ config \in [{"message", "transaction"} ->
                      [iterations : 0..MaxIterations,
                       warmupIterations : 0..MaxWarmup]]
    /\ variant # "comprehensive" => config["message"] = config["transaction"]
    /\ serviceDirs \in Listings
    /\ Len(serviceDirs) * CallsPerService(variant, config) <= MaxCalls
    /\ pc = "geo"
    /\ idx = 1
    /\ geoLocation = [success |-> FALSE, error |-> ""]
    /\ services = EmptyObject
    /\ imports = <<>>
    /\ initializedServices = EmptyObject
    /\ wallets = EmptyObject
    /\ phase = 1
    /\ hpc = "idle"
    /\ i = 0
    /\ times = <<>>
    /\ calls = <<>>
    /\ timed = <<>>
    /\ initCalls = [d \in DirSet |-> 0]
    /\ walletCalls = [d \in DirSet |-> 0]
    /\ signCalls = [d \in DirSet |-> 0]
    /\ log = <<>>
    /\ serviceResults = [op \in {"message", "transaction"} |-> EmptyObject]
    /\ rawTimes = [op \in {"message", "transaction"} |-> EmptyObject]
    /\ report = NoReport
    /\ exitCode = NoExit
    /\ error = NoError
    /\ StatsIdle
    /\ IndexIdle
    /\ SaveIdle
    /\ LegacyIdle

\* Mutant of Fail: the catch block reports the error and exits with code 0.
FailExitZero(err) ==
    /\ pc' = "done"
    /\ exitCode' = 0
    /\ error' = err

\* The top-level catch: console.error(...); process.exit(1).
Fail(err) ==
    /\ pc' = "done"
    /\ exitCode' = 1
    /\ error' = err

(***************************************************************************)
(* External calls.                                                         *)
(***************************************************************************)
NoDir == ""

\* wallets[serviceName] of a provider without a wallet (undefined).
NoWallet == [id |-> NoDir, serviceInstance |-> [owner |-> NoDir],
             serviceName |-> NoServiceName]

\* Mutant of AwaitedCall: the call is started and not awaited.
UnawaitedCall(call, dir, wallet) ==
    <<[event |-> "start", call |-> call, dir |-> dir, wallet |-> wallet]>>

\* `await f(...)`: the caller goes on only when the call has returned or
\* thrown.  dir is the provider module called, wallet what is passed to it.
AwaitedCall(call, dir, wallet) ==
    <<[event |-> "start", call |-> call, dir |-> dir, wallet |-> wallet],
      [event |-> "end", call |-> call, dir |-> dir, wallet |-> wallet]>>

\* Mutant of HarnessWallet: the wallet of the first provider.
FirstWallet == wallets[1].value

\* The arguments of benchmarkService: service.module and
\* wallets[serviceName] of the current entry of initializedServices.
HarnessModule == initializedServices[idx].value.module

HarnessWallet ==
    IF ObjHas(wallets, initializedServices[idx].key)
    THEN ObjGet(wallets, initializedServices[idx].key)
    ELSE NoWallet

(***************************************************************************)
(* getGeoLocation: every failure is caught and returned as a marker.       *)
(***************************************************************************)
\* Mutant of GetGeoLocation: a failed lookup is rethrown and ends the run.
GetGeoLocationFatal ==
    /\ pc = "geo"
    /\ geoLocation' \in GeoResults
    /\ IF geoLocation'.success
       THEN pc' = "discover" /\ UNCHANGED <<exitCode, error>>
       ELSE Fail(geoLocation'.error)
    /\ idx' = 1
    /\ UNCHANGED <<initCalls, walletCalls, variant, config, serviceDirs,
                   services, initializedServices, wallets, phase, hpc, i,
                   times, calls, timed, serviceResults, rawTimes, report>>
    /\ UNCHANGED <<imports, signCalls, statsVars, indexVars, saveVars, legacyVars>>
    /\ log' = log \o AwaitedCall("getGeoLocation", NoDir, NoWallet)

GetGeoLocation ==
    /\ pc = "geo"
    /\ geoLocation' \in GeoResults
    /\ pc' = "discover"
    /\ idx' = 1
    /\ UNCHANGED <<initCalls, walletCalls, variant, config, serviceDirs,
                   services, initializedServices, wallets, phase, hpc, i,
                   times, calls, timed, serviceResults, rawTimes, report,
                   exitCode, error>>
    /\ UNCHANGED <<imports, signCalls, statsVars, indexVars, saveVars, legacyVars>>
    /\ log' = log \o AwaitedCall("getGeoLocation", NoDir, NoWallet)

(***************************************************************************)
(* discoverServices.                                                       *)
(***************************************************************************)
\* fs.readdirSync throws: discoverServices returns {} and the script throws
\* 'No services found in the services directory'.
ReaddirFails ==
    /\ pc = "discover"
    /\ idx = 1
    /\ Fail("No services found")
    /\ UNCHANGED <<initCalls, walletCalls, variant, config, serviceDirs, idx,
                   geoLocation, services, initializedServices, wallets,
                   phase, hpc, i, times, calls, timed, serviceResults,
                   rawTimes, report>>
    /\ UNCHANGED <<log, imports, signCalls, statsVars, indexVars, saveVars, legacyVars>>

\* Mutant of ImportService: a module that fails to load ends discovery with
\* an empty mapping.
ImportServiceFatal ==
    /\ pc = "discover"
    /\ idx <= Len(serviceDirs)
    /\ \/ /\ services' = EmptyObject
          /\ imports' = Append(imports, [dir |-> serviceDirs[idx],
                                         loaded |-> FALSE])
          /\ idx' = Len(serviceDirs) + 1
       \/ /\ services' = ObjSet(services, serviceDirs[idx],
                                [serviceName |-> ExportedName[serviceDirs[idx]],
                                 dir |-> serviceDirs[idx]])
          /\ imports' = Append(imports, [dir |-> serviceDirs[idx],
                                         loaded |-> TRUE])
          /\ idx' = idx + 1
    /\ UNCHANGED <<initCalls, walletCalls, variant, config, serviceDirs, pc,
                   geoLocation, initializedServices, wallets, phase, hpc, i,
                   times, calls, timed, serviceResults, rawTimes, report,
                   exitCode, error>>
    /\ UNCHANGED <<signCalls, statsVars, indexVars, saveVars, legacyVars>>
    /\ log' = log \o AwaitedCall("import", serviceDirs[idx], NoWallet)

\* One directory: no index.js, or the import throws (skipped with a
\* warning), or the module is kept under the directory's name.
ImportService ==
    /\ pc = "discover"
    /\ idx <= Len(serviceDirs)
    /\ \/ /\ services' = services
          /\ imports' = Append(imports, [dir |-> serviceDirs[idx],
                                         loaded |-> FALSE])
       \/ /\ services' = ObjSet(services, serviceDirs[idx],
                                [serviceName |-> ExportedName[serviceDirs[idx]],
                                 dir |-> serviceDirs[idx]])
          /\ imports' = Append(imports, [dir |-> serviceDirs[idx],
                                         loaded |-> TRUE])
    /\ idx' = idx + 1
    /\ UNCHANGED <<initCalls, walletCalls, variant, config, serviceDirs, pc,
                   geoLocation, initializedServices, wallets, phase, hpc, i,
                   times, calls, timed, serviceResults, rawTimes, report,
                   exitCode, error>>
    /\ UNCHANGED <<signCalls, statsVars, indexVars, saveVars, legacyVars>>
    /\ log' = log \o AwaitedCall("import", serviceDirs[idx], NoWallet)

\* discoverServices returns; the script stops if nothing was found.
DiscoverReturn ==
    /\ pc = "discover"
    /\ idx > Len(serviceDirs)
    /\ IF Len(services) = 0
       THEN /\ Fail("No services found")
            /\ UNCHANGED idx
       ELSE /\ pc' = "init"
            /\ idx' = 1
            /\ UNCHANGED <<exitCode, error>>
    /\ UNCHANGED <<initCalls, walletCalls, variant, config, serviceDirs,
                   geoLocation, services, initializedServices, wallets,
                   phase, hpc, i, times, calls, timed, serviceResults,
                   rawTimes, report>>
    /\ UNCHANGED <<log, imports, signCalls, statsVars, indexVars, saveVars, legacyVars>>

(***************************************************************************)
(* initializeServices.                                                     *)
(***************************************************************************)
InitializedService(entry) ==
    [name |-> IF entry.value.serviceName # NoServiceName
              THEN entry.value.serviceName ELSE entry.key,
     module |-> entry.value,
     instance |-> [owner |-> entry.key]]

\* Mutant of InitializeService: a failing initializeService is not caught
\* per provider and ends the run.
InitializeServiceFatal ==
    /\ pc = "init"
    /\ idx <= Len(services)
    /\ initCalls' = [initCalls EXCEPT ![services[idx].key] = @ + 1]
    /\ \/ /\ initializedServices' =
               ObjSet(initializedServices, services[idx].key,
                      InitializedService(services[idx]))
          /\ idx' = idx + 1
          /\ UNCHANGED <<pc, exitCode, error>>
       \/ /\ Fail("initialize failed")
          /\ UNCHANGED <<initializedServices, idx>>
    /\ UNCHANGED <<walletCalls, variant, config, serviceDirs, geoLocation,
                   services, wallets, phase, hpc, i, times, calls, timed,
                   serviceResults, rawTimes, report>>
    /\ UNCHANGED <<imports, signCalls, statsVars, indexVars, saveVars, legacyVars>>
    /\ log' = log \o AwaitedCall("initializeService", services[idx].key, NoWallet)

InitializeService ==
    /\ pc = "init"
    /\ idx <= Len(services)
    /\ \/ initializedServices' =
            ObjSet(initializedServices, services[idx].key,
                   InitializedService(services[idx]))
       \/ initializedServices' = initializedServices   \* threw: warning only
    /\ initCalls' = [initCalls EXCEPT ![services[idx].key] = @ + 1]
    /\ idx' = idx + 1
    /\ UNCHANGED <<walletCalls, variant, config, serviceDirs, pc,
                   geoLocation, services, wallets, phase, hpc, i, times,
                   calls, timed, serviceResults, rawTimes, report, exitCode,
                   error>>
    /\ UNCHANGED <<imports, signCalls, statsVars, indexVars, saveVars, legacyVars>>
    /\ log' = log \o AwaitedCall("initializeService", services[idx].key, NoWallet)

InitializeReturn ==
    /\ pc = "init"
    /\ idx > Len(services)
    /\ pc' = "wallet"
    /\ idx' = 1
    /\ UNCHANGED <<initCalls, walletCalls, variant, config, serviceDirs,
                   geoLocation, services, initializedServices, wallets,
                   phase, hpc, i, times, calls, timed, serviceResults,
                   rawTimes, report, exitCode, error>>
    /\ UNCHANGED <<log, imports, signCalls, statsVars, indexVars, saveVars, legacyVars>>

(***************************************************************************)
(* createWalletsForServices.                                               *)
(***************************************************************************)
Wallet(entry) ==
    [id |-> entry.key,
     serviceInstance |-> entry.value.instance,
     serviceName |-> entry.value.name]

CreateWallet ==
    /\ pc = "wallet"
    /\ idx <= Len(initializedServices)
    /\ \/ wallets' = ObjSet(wallets, initializedServices[idx].key,
                            Wallet(initializedServices[idx]))
       \/ wallets' = wallets                           \* threw: error logged
    /\ walletCalls' = [walletCalls EXCEPT ![initializedServices[idx].key] = @ + 1]
    /\ idx' = idx + 1
    /\ UNCHANGED <<initCalls, variant, config, serviceDirs, pc, geoLocation,
                   services, initializedServices, phase, hpc, i, times,
                   calls, timed, serviceResults, rawTimes, report, exitCode,
                   error>>
    /\ UNCHANGED <<imports, signCalls, statsVars, indexVars, saveVars, legacyVars>>
    /\ log' = log \o AwaitedCall("createWallet", initializedServices[idx].key,
                               [NoWallet EXCEPT !.serviceInstance =
                                   initializedServices[idx].value.instance])

CreateWalletsReturn ==
    /\ pc = "wallet"
    /\ idx > Len(initializedServices)
    /\ pc' = "bench"
    /\ idx' = 1
    /\ phase' = 1
    /\ hpc' = "idle"
    /\ UNCHANGED <<initCalls, walletCalls, variant, config, serviceDirs,
                   geoLocation, services, initializedServices, wallets, i,
                   times, calls, timed, serviceResults, rawTimes, report,
                   exitCode, error>>
    /\ UNCHANGED <<log, imports, signCalls, statsVars, indexVars, saveVars, legacyVars>>

(***************************************************************************)
(* The benchmark loop of the script and the timing harness                 *)
(* (benchmarkService / benchmarkMessageSigning /                           *)
(* benchmarkTransactionSigning).                                           *)
(***************************************************************************)
\* Mutant of StartHarness: every initialized provider is benchmarked,
\* with or without a wallet.
StartHarnessUnchecked ==
    /\ pc = "bench"
    /\ hpc \in {"idle", "returned"}
    /\ idx <= Len(initializedServices)
    /\ hpc' = "warmup"
    /\ i' = 0
    /\ times' = <<>>
    /\ calls' = <<>>
    /\ timed' = <<>>
    /\ UNCHANGED <<initCalls, walletCalls, variant, config, serviceDirs, pc,
                   idx, geoLocation, services, initializedServices, wallets,
                   phase, serviceResults, rawTimes, report, exitCode, error>>
    /\ UNCHANGED <<log, imports, signCalls, statsVars, indexVars, saveVars, legacyVars>>

\* for (const [serviceName, service] of Object.entries(initializedServices))
\*     if (wallets[serviceName]) times = await benchmarkService(...)
StartHarness ==
    /\ pc = "bench"
    /\ hpc \in {"idle", "returned"}
    /\ idx <= Len(initializedServices)
    /\ IF ObjHas(wallets, initializedServices[idx].key)
       THEN /\ hpc' = "warmup"
            /\ i' = 0
            /\ times' = <<>>
            /\ calls' = <<>>
            /\ timed' = <<>>
            /\ UNCHANGED idx
       ELSE /\ hpc' = "idle"
            /\ idx' = idx + 1
            /\ UNCHANGED <<i, times, calls, timed>>
    /\ UNCHANGED <<initCalls, walletCalls, variant, config, serviceDirs, pc,
                   geoLocation, services, initializedServices, wallets,
                   phase, serviceResults, rawTimes, report, exitCode, error>>
    /\ UNCHANGED <<log, imports, signCalls, statsVars, indexVars, saveVars, legacyVars>>

\* A warm-up call that returns: its duration is not looked at.
WarmupCall ==
    /\ pc = "bench"
    /\ hpc = "warmup"
    /\ i < config[Operation].warmupIterations
    /\ \E d \in Durations : calls' = Append(calls, d)
    /\ i' = i + 1
    /\ UNCHANGED <<initCalls, walletCalls, variant, config, serviceDirs, pc,
                   idx, geoLocation, services, initializedServices, wallets,
                   phase, hpc, times, timed, serviceResults, rawTimes,
                   report, exitCode, error>>
    /\ signCalls' = [signCalls EXCEPT ![initializedServices[idx].key] = @ + 1]
    /\ UNCHANGED <<imports, statsVars, indexVars, saveVars, legacyVars>>
    /\ log' = log \o AwaitedCall(Operation, HarnessModule.dir, HarnessWallet)

\* Mutant of WarmupDone: the warm-up loop may end before it has made all
\* its calls.
WarmupCutShort ==
    /\ pc = "bench"
    /\ hpc = "warmup"
    /\ hpc' = "measure"
    /\ i' = 0
    /\ times' = <<>>
    /\ UNCHANGED <<initCalls, walletCalls, variant, config, serviceDirs, pc,
                   idx, geoLocation, services, initializedServices, wallets,
                   phase, calls, timed, serviceResults, rawTimes, report,
                   exitCode, error>>
    /\ UNCHANGED <<log, imports, signCalls, statsVars, indexVars, saveVars, legacyVars>>

\* The warm-up loop ends; const times = [].
WarmupDone ==
    /\ pc = "bench"
    /\ hpc = "warmup"
    /\ i >= config[Operation].warmupIterations
    /\ hpc' = "measure"
    /\ i' = 0
    /\ times' = <<>>
    /\ UNCHANGED <<initCalls, walletCalls, variant, config, serviceDirs, pc,
                   idx, geoLocation, services, initializedServices, wallets,
                   phase, calls, timed, serviceResults, rawTimes, report,
                   exitCode, error>>
    /\ UNCHANGED <<log, imports, signCalls, statsVars, indexVars, saveVars, legacyVars>>

\* Mutant of Push: the duration is put in front (unshift instead of push).
PushFront(ts, d) == <<d>> \o ts

\* times.push(end - start)
Push(ts, d) == Append(ts, d)

\* Mutant of MeasuredCall: the call never returns and never throws.
MeasuredCallHangs ==
    /\ pc = "bench"
    /\ hpc = "measure"
    /\ i < config[Operation].iterations
    /\ hpc' = "hung"
    /\ timed' = <<"start">> \o ProviderCall(Operation)
    /\ UNCHANGED <<initCalls, walletCalls, variant, config, serviceDirs, pc,
                   idx, geoLocation, services, initializedServices, wallets,
                   phase, i, times, calls, serviceResults, rawTimes, report,
                   exitCode, error>>
    /\ signCalls' = [signCalls EXCEPT ![initializedServices[idx].key] = @ + 1]
    /\ UNCHANGED <<imports, statsVars, indexVars, saveVars, legacyVars>>
    /\ log' = log \o UnawaitedCall(Operation, HarnessModule.dir, HarnessWallet)

\* A measured call that returns after d milliseconds.
MeasuredCall ==
    /\ pc = "bench"
    /\ hpc = "measure"
    /\ i < config[Operation].iterations
    /\ \E d \in Durations :
         /\ calls' = Append(calls, d)
         /\ times' = Push(times, d)
    /\ timed' = MeasuredIteration(Operation)
    /\ i' = i + 1
    /\ UNCHANGED <<initCalls, walletCalls, variant, config, serviceDirs, pc,
                   idx, geoLocation, services, initializedServices, wallets,
                   phase, hpc, serviceResults, rawTimes, report, exitCode,
                   error>>
    /\ signCalls' = [signCalls EXCEPT ![initializedServices[idx].key] = @ + 1]
    /\ UNCHANGED <<imports, statsVars, indexVars, saveVars, legacyVars>>
    /\ log' = log \o AwaitedCall(Operation, HarnessModule.dir, HarnessWallet)

\* Mutant of SignThrows: the error of the call is swallowed, nothing exits.
SignThrowsSwallowed ==
    /\ pc = "bench"
    /\ \/ hpc = "warmup" /\ i < config[Operation].warmupIterations
       \/ hpc = "measure" /\ i < config[Operation].iterations
    /\ hpc' = "threw"
    /\ UNCHANGED <<initCalls, walletCalls, variant, config, serviceDirs, pc,
                   idx, geoLocation, services, initializedServices, wallets,
                   phase, i, times, calls, timed, serviceResults, rawTimes,
                   report, exitCode, error>>
    /\ signCalls' = [signCalls EXCEPT ![initializedServices[idx].key] = @ + 1]
    /\ UNCHANGED <<imports, statsVars, indexVars, saveVars, legacyVars>>
    /\ log' = log \o AwaitedCall(Operation, HarnessModule.dir, HarnessWallet)

\* A warm-up or measured call throws: nothing in the harness or in the
\* loop of the script catches it, so it reaches the top-level catch.
SignThrows ==
    /\ pc = "bench"
    /\ \/ hpc = "warmup" /\ i < config[Operation].warmupIterations
       \/ hpc = "measure" /\ i < config[Operation].iterations
    /\ hpc' = "threw"
    /\ Fail("sign call failed")
    /\ UNCHANGED <<initCalls, walletCalls, variant, config, serviceDirs, idx,
                   geoLocation, services, initializedServices, wallets,
                   phase, i, times, calls, timed, serviceResults, rawTimes,
                   report>>
    /\ signCalls' = [signCalls EXCEPT ![initializedServices[idx].key] = @ + 1]
    /\ UNCHANGED <<imports, statsVars, indexVars, saveVars, legacyVars>>
    /\ log' = log \o AwaitedCall(Operation, HarnessModule.dir, HarnessWallet)

\* The harness returns `times`; the script stores
\*   serviceResults[service.name] = calculateStats(times);
\*   rawTimes[service.name] = times;
HarnessReturn ==
    /\ pc = "bench"
    /\ hpc = "measure"
    /\ i >= config[Operation].iterations
    /\ LET name == initializedServices[idx].value.name
       IN  /\ serviceResults' =
                [serviceResults EXCEPT
                    ![Operation] = ObjSet(@, name, calculateStats(Millis(times)))]
           /\ rawTimes' = [rawTimes EXCEPT ![Operation] = ObjSet(@, name, times)]
    /\ hpc' = "returned"
    /\ idx' = idx + 1
    /\ UNCHANGED <<initCalls, walletCalls, variant, config, serviceDirs, pc,
                   geoLocation, services, initializedServices, wallets,
                   phase, i, times, calls, timed, report, exitCode, error>>
    /\ UNCHANGED <<log, imports, signCalls, statsVars, indexVars, saveVars, legacyVars>>

\* The loop over the initialized services ends: the next operation of the
\* comprehensive script, or the results.
PhaseDone ==
    /\ pc = "bench"
    /\ hpc \in {"idle", "returned"}
    /\ idx > Len(initializedServices)
    /\ IF phase < Len(Phases(variant))
       THEN /\ phase' = phase + 1
            /\ idx' = 1
            /\ hpc' = "idle"
            /\ UNCHANGED pc
       ELSE /\ pc' = "display"
            /\ UNCHANGED <<phase, idx, hpc>>
    /\ UNCHANGED <<initCalls, walletCalls, variant, config, serviceDirs,
                   geoLocation, services, initializedServices, wallets, i,
                   times, calls, timed, serviceResults, rawTimes, report,
                   exitCode, error>>
    /\ UNCHANGED <<log, imports, signCalls, statsVars, indexVars, saveVars, legacyVars>>

(***************************************************************************)
(* displayResults.                                                         *)
(***************************************************************************)
\* The statistics displayResults formats with .toFixed(): all seven in the
\* single-operation scripts, mean, median and p95 in the comprehensive one.
Displayed(stats) ==
    IF variant = "comprehensive"
    THEN {stats.mean, stats.median, stats.p95}
    ELSE {stats.min, stats.max, stats.mean, stats.median,
          stats.standardDeviation, stats.p95, stats.p99}

\* undefined.toFixed is a TypeError (NaN and Infinity format fine).
DisplayThrows ==
    \E op \in {Phases(variant)[p] : p \in 1..Len(Phases(variant))} :
        \E k \in 1..Len(serviceResults[op]) :
            Undefined \in Displayed(serviceResults[op][k].value)

DisplayResults ==
    /\ pc = "display"
    /\ IF DisplayThrows
       THEN Fail("TypeError")
       ELSE /\ pc' = "save"
            /\ UNCHANGED <<exitCode, error>>
    /\ UNCHANGED <<initCalls, walletCalls, variant, config, serviceDirs, idx,
                   geoLocation, services, initializedServices, wallets,
                   phase, hpc, i, times, calls, timed, serviceResults,
                   rawTimes, report>>
    /\ UNCHANGED <<log, imports, signCalls, statsVars, indexVars, saveVars, legacyVars>>

(***************************************************************************)
(* saveResults.                                                            *)
(***************************************************************************)
\* Mutant of CompareMean: the operands are swapped (b - a).
CompareMeanReversed(results, a, b) ==
    LET x == ObjGet(results, b).mean
        y == ObjGet(results, a).mean
    IN  IF ~IsNumber(x) \/ ~IsNumber(y) THEN 0
        ELSE IF NumLess(x, y) THEN -1
        ELSE IF NumLess(y, x) THEN 1
        ELSE 0

\* (a, b) => results[a].mean - results[b].mean, as Array.prototype.sort
\* reads it: negative, zero or positive; NaN counts as zero.
CompareMean(results, a, b) ==
    LET x == ObjGet(results, a).mean
        y == ObjGet(results, b).mean
    IN  IF ~IsNumber(x) \/ ~IsNumber(y) THEN 0
        ELSE IF NumLess(x, y) THEN -1
        ELSE IF NumLess(y, x) THEN 1
        ELSE 0

RECURSIVE InsertStable(_, _, _)
\* x goes behind every element that does not compare greater than it.
InsertStable(results, sorted, x) ==
    IF sorted = <<>> THEN <<x>>
    ELSE IF CompareMean(results, Head(sorted), x) > 0 THEN <<x>> \o sorted
    ELSE <<Head(sorted)>> \o InsertStable(results, Tail(sorted), x)

RECURSIVE SortFrom(_, _, _)
SortFrom(results, sorted, rest) ==
    IF rest = <<>> THEN sorted
    ELSE SortFrom(results, InsertStable(results, sorted, Head(rest)), Tail(rest))

\* serviceNames.sort((a, b) => results[a].mean - results[b].mean); the
\* sort is stable (ECMAScript 2019).
SortByMean(results) == SortFrom(results, <<>>, ObjKeys(results))

\* Mutant of Comparison: the comparison is built from one provider on.
ComparisonFromOne(results) ==
    IF Len(results) >= 1
    THEN LET sortedServices == SortByMean(results)
         IN  [fastest |-> sortedServices[1],
              slowest |-> sortedServices[Len(sortedServices)],
              rankings |-> [k \in 1..Len(sortedServices) |->
                              [rank |-> k,
                               service |-> sortedServices[k],
                               meanTime |-> ObjGet(results, sortedServices[k]).mean]]]
    ELSE EmptyObject

\* results.comparison
Comparison(results) ==
    IF Len(results) >= 2
    THEN LET sortedServices == SortByMean(results)
         IN  [fastest |-> sortedServices[1],
              slowest |-> sortedServices[Len(sortedServices)],
              rankings |-> [k \in 1..Len(sortedServices) |->
                              [rank |-> k,
                               service |-> sortedServices[k],
                               meanTime |-> ObjGet(results, sortedServices[k]).mean]]]
    ELSE EmptyObject

\* results.services
ServicesSection(results, raw) ==
    [k \in 1..Len(results) |->
        [key |-> results[k].key,
         value |-> [rawTimes |-> ObjGet(raw, results[k].key),
                    statistics |-> results[k].value]]]

\* The `results` object saveResults builds, one section per operation
\* (the single-operation scripts keep their one section at the top level).
Results ==
    [written |-> TRUE,
     geoLocation |-> geoLocation,
     benchmarkType |-> BenchmarkType(variant),
     config |-> config,
     sections |->
        [op \in {Phases(variant)[p] : p \in 1..Len(Phases(variant))} |->
            [services |-> ServicesSection(serviceResults[op], rawTimes[op]),
             comparison |-> Comparison(serviceResults[op])]]]

\* mkdirSync / writeFileSync succeed and the script ends, or one throws.
SaveResults ==
    /\ pc = "save"
    /\ \/ /\ report' = Results
          /\ pc' = "done"
          /\ exitCode' = 0
          /\ UNCHANGED error
       \/ /\ Fail("write failed")
          /\ UNCHANGED report
    /\ UNCHANGED <<initCalls, walletCalls, variant, config, serviceDirs, idx,
                   geoLocation, services, initializedServices, wallets,
                   phase, hpc, i, times, calls, timed, serviceResults,
                   rawTimes>>
    /\ UNCHANGED <<imports, signCalls, statsVars, indexVars, saveVars, legacyVars>>
    /\ log' = log \o AwaitedCall("writeFile", NoDir, NoWallet)

Next ==
    \/ GetGeoLocation
    \/ ReaddirFails
    \/ ImportService
    \/ DiscoverReturn
    \/ InitializeService
    \/ InitializeReturn
    \/ CreateWallet
    \/ CreateWalletsReturn
    \/ StartHarness
    \/ WarmupCall
    \/ WarmupDone
    \/ MeasuredCall
    \/ SignThrows
    \/ HarnessReturn
    \/ PhaseDone
    \/ DisplayResults
    \/ SaveResults

Spec == Init /\ [][Next]_vars

\* The steps of the run other than the harness's return.
StepsBeforeReturn ==
    \/ GetGeoLocation
    \/ ReaddirFails
    \/ ImportService
    \/ DiscoverReturn
    \/ InitializeService
    \/ InitializeReturn
    \/ CreateWallet
    \/ CreateWalletsReturn
    \/ StartHarness
    \/ WarmupCall
    \/ WarmupDone
    \/ MeasuredCall
    \/ SignThrows
    \/ PhaseDone
    \/ DisplayResults
    \/ SaveResults

\* The guard of HarnessReturn: the measured loop has run its iterations.
HarnessReturnEnabled ==
    /\ pc = "bench"
    /\ hpc = "measure"
    /\ i >= config[Operation].iterations

\* The run under the assumption that every external call returns or throws:
\* a step that can be taken is eventually taken.  The harness's return is
\* synchronous code after the last awaited call; its weak fairness is written
\* with the action's guard in the place of ENABLED.
LiveSpec ==
    /\ Spec
    /\ WF_vars(StepsBeforeReturn)
    /\ ([]<>(~HarnessReturnEnabled) \/ []<><<HarnessReturn>>_vars)

(***************************************************************************)
(* calculateStats on its own: every array of at most MaxSample durations   *)
(* drawn from SampleValues.                                                *)
(***************************************************************************)
\* No script runs.
RunIdle ==
    /\ variant = "message"
    /\ config = [op \in {"message", "transaction"} |->
                   [iterations |-> 0, warmupIterations |-> 0]]
    /\ serviceDirs = <<>>
    /\ pc = "idle"
    /\ idx = 1
    /\ geoLocation = [success |-> FALSE, error |-> ""]
    /\ services = EmptyObject
    /\ imports = <<>>
    /\ initializedServices = EmptyObject
    /\ wallets = EmptyObject
    /\ phase = 1
    /\ hpc = "idle"
    /\ i = 0
    /\ times = <<>>
    /\ calls = <<>>
    /\ timed = <<>>
    /\ initCalls = [d \in DirSet |-> 0]
    /\ walletCalls = [d \in DirSet |-> 0]
    /\ signCalls = [d \in DirSet |-> 0]
    /\ log = <<>>
    /\ serviceResults = [op \in {"message", "transaction"} |-> EmptyObject]
    /\ rawTimes = [op \in {"message", "transaction"} |-> EmptyObject]
    /\ report = NoReport
    /\ exitCode = NoExit
    /\ error = NoError

\* Durations in milliseconds: 0.1, 10, 20, 30 and 100.
SampleValues ==
    {Number(1, 10), Number(10, 1), Number(20, 1), Number(30, 1),
     Number(100, 1)}

\* The shortest length for which p95 is not the maximum.
LongLengths == {21}

\* n distinct whole durations in descending order: n, n - 1, ..., 1.
Descending(n) == [k \in 1..n |-> Number(n - k + 1, 1)]

Samples ==
    UNION {[1..n -> SampleValues] : n \in 0..MaxSample}
      \cup {Descending(n) : n \in LongLengths}

StatsInit ==
    /\ sample \in Samples
    /\ sampleStats = NoStats
    /\ RunIdle
    /\ IndexIdle
    /\ SaveIdle
    /\ LegacyIdle

\* Mutant of CalculateStats: times.sort(...) instead of [...times].sort(...),
\* which sorts the caller's array.
CalculateStatsSortsInPlace ==
    /\ sampleStats = NoStats
    /\ sampleStats' = [computed |-> TRUE, result |-> calculateStats(sample)]
    /\ sample' = SortAsc(sample)
    /\ UNCHANGED <<runVars, indexVars, saveVars, legacyVars>>

\* calculateStats(times): the array is read by reduce and Math.min/max and
\* sorted as a copy ([...times]), so the caller's array stays as it was.
CalculateStats ==
    /\ sampleStats = NoStats
    /\ sampleStats' = [computed |-> TRUE, result |-> calculateStats(sample)]
    /\ UNCHANGED <<sample, runVars, indexVars, saveVars, legacyVars>>

\* A second call of calculateStats with the same array.
CalculateStatsAgain ==
    /\ sampleStats.computed
    /\ "again" \notin DOMAIN sampleStats
    /\ sampleStats' = [computed |-> TRUE, result |-> sampleStats.result,
                       again |-> calculateStats(sample)]
    /\ UNCHANGED <<sample, runVars, indexVars, saveVars, legacyVars>>

StatsNext == CalculateStats \/ CalculateStatsAgain

StatsSpec == StatsInit /\ [][StatsNext]_vars

(***************************************************************************)
(* The percentile index on its own: every length up to MaxLength.          *)
(***************************************************************************)
IndexInit ==
    /\ length \in 0..MaxLength
    /\ indices = NoIndex
    /\ RunIdle
    /\ StatsIdle
    /\ SaveIdle
    /\ LegacyIdle

ComputeIndex ==
    /\ indices = NoIndex
    /\ indices' = [computed |-> TRUE,
                 p95 |-> PercentileIndex(length, P95),
                 p99 |-> PercentileIndex(length, P99)]
    /\ UNCHANGED <<length, runVars, statsVars, saveVars, legacyVars>>

IndexNext == ComputeIndex

IndexSpec == IndexInit /\ [][IndexNext]_vars

(***************************************************************************)
(* saveResults on its own: every script that saves a report, started with  *)
(* or without an existing results directory.                               *)
(***************************************************************************)
ResultsDir == "results"
WorkingDir == "."

\* The scripts whose saveResults builds path.join(resultsDir, filename).
UsesResultsDir ==
    {"benchmark-signmessage.js", "benchmark-signtransaction-new.js",
     "benchmark-new.js", "benchmark.js (2)"}

\* The filename: a prefix and the timestamp.
FilePrefix ==
    [s \in Scripts |->
        CASE s = "benchmark-signmessage.js" -> "message-signing-benchmark"
          [] s = "benchmark-signtransaction-new.js" ->
                 "transaction-signing-benchmark"
          [] s = "benchmark-new.js" -> "comprehensive-benchmark"
          [] s = "benchmark-signtransaction.js" ->
                 "transaction-benchmark-results"
          [] OTHER -> "benchmark-results"]

Filename == [prefix |-> FilePrefix[script], stamp |-> stamp]

SaveInit ==
    /\ RunIdle
    /\ StatsIdle
    /\ IndexIdle
    /\ LegacyIdle
    /\ script \in Scripts
    /\ stamp \in 1..MaxStamp
    /\ directories \in SUBSET {ResultsDir}
    /\ files = {}
    /\ mkdirs = <<>>
    /\ saveState = "pending"

\* saveResults of the scripts with a results directory: mkdirSync when the
\* directory is missing, then writeFileSync into it; either call may throw.
SaveResultsInDirectory ==
    /\ saveState = "pending"
    /\ script \in UsesResultsDir
    /\ \/ /\ ResultsDir \notin directories
          /\ saveState' = "failed"
          /\ UNCHANGED <<directories, mkdirs, files>>
       \/ /\ directories' = directories \cup {ResultsDir}
          /\ mkdirs' = IF ResultsDir \in directories
                       THEN mkdirs
                       ELSE Append(mkdirs, ResultsDir)
          /\ \/ /\ files' = files \cup {[dir |-> ResultsDir,
                                         name |-> Filename]}
                /\ saveState' = "saved"
             \/ /\ saveState' = "failed"
                /\ UNCHANGED files
    /\ UNCHANGED <<script, stamp, runVars, statsVars, indexVars, legacyVars>>

\* saveResults of the first script of benchmark.js and of
\* benchmark-signtransaction.js: writeFileSync(filename, ...), a path
\* relative to the working directory.
SaveResultsInWorkingDir ==
    /\ saveState = "pending"
    /\ script \notin UsesResultsDir
    /\ \/ /\ files' = files \cup {[dir |-> WorkingDir, name |-> Filename]}
          /\ saveState' = "saved"
       \/ /\ saveState' = "failed"
          /\ UNCHANGED files
    /\ UNCHANGED <<script, stamp, directories, mkdirs, runVars, statsVars,
                   indexVars, legacyVars>>

SaveNext == SaveResultsInDirectory \/ SaveResultsInWorkingDir

SaveSpec == SaveInit /\ [][SaveNext]_vars

(***************************************************************************)
(* The legacy scripts on their own, for every set of environment variables *)
(* that may be set.                                                        *)
(***************************************************************************)
TurnkeyVars ==
    {"TURNKEY_ORGANIZATION_ID", "TURNKEY_API_PRIVATE_KEY",
     "TURNKEY_API_PUBLIC_KEY"}

PrivyVars == {"PRIVY_APP_ID", "PRIVY_APP_SECRET"}

\* The providers a legacy script works with, in the order it uses them.
LegacyProviders(s) ==
    IF s \in HardWired THEN <<"turnkey", "privy">>
    ELSE IF s \in {"turnkey.js (1)", "turnkey-transaction.js"}
         THEN <<"turnkey">>
         ELSE <<"privy">>

\* The environment variables a legacy script checks before it goes on.
RequiredVars(s) ==
    UNION {IF LegacyProviders(s)[k] = "turnkey" THEN TurnkeyVars ELSE PrivyVars :
             k \in 1..Len(LegacyProviders(s))}

\* The signing calls of a legacy script that nothing interrupts: warm-up and
\* measured calls for each of the two providers, or the single call.
LegacyTotalCalls(s) ==
    IF s \in HardWired THEN 2 * (MaxWarmup + MaxIterations) ELSE 1

\* The scripts that look the location up before anything else.
WithGeoLocation == {"benchmark.js (2)", "benchmark-signtransaction.js (1)"}

LegacyInit ==
    /\ RunIdle
    /\ StatsIdle
    /\ IndexIdle
    /\ SaveIdle
    /\ legacyScript \in LegacyScripts
    /\ env \in SUBSET (TurnkeyVars \cup PrivyVars)
    /\ lpc = IF legacyScript \in WithGeoLocation THEN "start" ELSE "clients"
    /\ legacyWallets = <<>>
    /\ legacyCalls = 0
    /\ legacyExit = NoExit

\* process.exit(1): from the catch of the main function, from the
\* credential check of a one-shot script, or after an uncaught rejection.
LegacyFail ==
    /\ lpc' = "done"
    /\ legacyExit' = 1

\* The second script of benchmark.js and benchmark-signtransaction.js look
\* the location up first; the lookup never throws.
LegacyGeoLocation ==
    /\ lpc = "start"
    /\ legacyScript \in WithGeoLocation
    /\ lpc' = "clients"
    /\ UNCHANGED <<legacyScript, env, legacyWallets, legacyCalls, legacyExit>>
    /\ UNCHANGED <<runVars, statsVars, indexVars, saveVars>>

\* Mutant of InitializeClients: only the Turnkey variables are checked.
InitializeClientsTurnkeyOnly ==
    /\ lpc = "clients"
    /\ legacyScript \in HardWired
    /\ IF TurnkeyVars \subseteq env
       THEN lpc' = "wallets" /\ UNCHANGED legacyExit
       ELSE LegacyFail
    /\ UNCHANGED <<legacyScript, env, legacyWallets, legacyCalls>>
    /\ UNCHANGED <<runVars, statsVars, indexVars, saveVars>>

\* initializeClients: throws when a Turnkey variable is missing, then when a
\* Privy variable is missing; the catch of the main function exits with 1.
InitializeClients ==
    /\ lpc = "clients"
    /\ legacyScript \in HardWired
    /\ IF TurnkeyVars \subseteq env /\ PrivyVars \subseteq env
       THEN lpc' = "wallets" /\ UNCHANGED legacyExit
       ELSE LegacyFail
    /\ UNCHANGED <<legacyScript, env, legacyWallets, legacyCalls>>
    /\ UNCHANGED <<runVars, statsVars, indexVars, saveVars>>

\* The check at the top of a one-shot script: console.error and
\* process.exit(1) when one of its provider's variables is missing.
CheckCredentials ==
    /\ lpc = "clients"
    /\ legacyScript \in OneShot
    /\ IF RequiredVars(legacyScript) \subseteq env
       THEN lpc' = "wallets" /\ UNCHANGED legacyExit
       ELSE LegacyFail
    /\ UNCHANGED <<legacyScript, env, legacyWallets, legacyCalls>>
    /\ UNCHANGED <<runVars, statsVars, indexVars, saveVars>>

\* setupWallets, or the wallet of a one-shot script: one wallet per provider
\* in order; a failing request ends the script with the wallets made so far.
LegacyCreateWallets ==
    /\ lpc = "wallets"
    /\ \E made \in 0..Len(LegacyProviders(legacyScript)) :
          /\ legacyWallets' = SubSeq(LegacyProviders(legacyScript), 1, made)
          /\ IF made = Len(LegacyProviders(legacyScript))
             THEN lpc' = "sign" /\ UNCHANGED legacyExit
             ELSE LegacyFail
    /\ UNCHANGED <<legacyScript, env, legacyCalls>>
    /\ UNCHANGED <<runVars, statsVars, indexVars, saveVars>>

\* One signing call: it returns, or it throws and the script ends.
LegacySign ==
    /\ lpc = "sign"
    /\ legacyCalls < LegacyTotalCalls(legacyScript)
    /\ legacyCalls' = legacyCalls + 1
    /\ \/ UNCHANGED <<lpc, legacyExit>>
       \/ LegacyFail
    /\ UNCHANGED <<legacyScript, env, legacyWallets>>
    /\ UNCHANGED <<runVars, statsVars, indexVars, saveVars>>

\* The rest of the script: results are shown (and saved by the benchmarks);
\* the script ends with code 0, or with 1 when the file cannot be written.
LegacyFinish ==
    /\ lpc = "sign"
    /\ legacyCalls = LegacyTotalCalls(legacyScript)
    /\ lpc' = "done"
    /\ \/ legacyExit' = 0
       \/ legacyScript \in HardWired /\ legacyExit' = 1
    /\ UNCHANGED <<legacyScript, env, legacyWallets, legacyCalls>>
    /\ UNCHANGED <<runVars, statsVars, indexVars, saveVars>>

LegacyNext ==
    \/ LegacyGeoLocation
    \/ InitializeClients
    \/ CheckCredentials
    \/ LegacyCreateWallets
    \/ LegacySign
    \/ LegacyFinish

LegacySpec == LegacyInit /\ [][LegacyNext]_vars

(***************************************************************************)
(* Properties.                                                             *)
(***************************************************************************)
W == config[Operation].warmupIterations
N == config[Operation].iterations

OperationSet == {Phases(variant)[p] : p \in 1..Len(Phases(variant))}

\* The service.name of every provider that initialized and got a wallet.
UsableNames ==
    {initializedServices[k].value.name :
        k \in {j \in 1..Len(initializedServices) :
                  ObjHas(wallets, initializedServices[j].key)}}

\* The directories whose initializeService was called and threw.
InitFailed ==
    {d \in ObjKeySet(services) :
        initCalls[d] > 0 /\ ~ObjHas(initializedServices, d)}

\* The loop of initializeServices / createWalletsForServices has ended.
AfterInit == pc \in {"wallet", "bench", "display", "save"}
                \/ (pc = "done" /\ Len(services) > 0)
AfterWallets == pc \in {"bench", "display", "save"}
                   \/ (pc = "done" /\ Len(services) > 0)

\* C1: when the harness returns with iterations = N and warmupIterations = W,
\* the returned measurement has exactly N entries and its k-th entry is the
\* duration of the (W + k)-th call made to the operation (call order).
C1_MeasurementInCallOrder ==
    hpc = "returned" =>
        LET returned == ObjGet(rawTimes[Operation],
                               initializedServices[idx - 1].value.name)
        IN  /\ Len(returned) = N
            /\ Len(calls) = W + N
            /\ \A k \in 1..N : returned[k] = calls[W + k]

C1_Witness ==
    /\ hpc = "returned"
    /\ Operation = "transaction"
    /\ W = 1
    /\ N = 2
    /\ calls = <<2, 1, 2>>

\* C2: when a signing call throws (warm-up or measured), the run ends with
\* exit code 1, no results file is written, the partial list of durations is
\* not recorded as a measurement, and only providers before the failing one
\* have a measurement for this operation.
C2_SignFailureAbortsRun ==
    hpc = "threw" =>
        /\ pc = "done"
        /\ exitCode = 1
        /\ error # NoError
        /\ report = NoReport
        /\ Len(rawTimes[Operation]) <= idx - 1
        /\ \A op \in {"message", "transaction"} :
              \A k \in 1..Len(rawTimes[op]) :
                  Len(rawTimes[op][k].value) = config[op].iterations

C2_Witness ==
    /\ hpc = "threw"
    /\ N = 2
    /\ Len(times) = 1
    /\ idx = 2
    /\ Len(rawTimes[Operation]) = 1

\* C3: a provider whose initializeService throws is dropped without ending
\* the run: every discovered provider gets its initializeService call, every
\* initialized provider its createWallet call, and a written report lists
\* exactly the providers that initialized and obtained a wallet, each with a
\* full measurement.
C3_InitFailureDropsProvider ==
    /\ AfterInit =>
          \A k \in 1..Len(services) : initCalls[services[k].key] = 1
    /\ AfterWallets =>
          \A k \in 1..Len(initializedServices) :
              walletCalls[initializedServices[k].key] = 1
    /\ report.written =>
          \A op \in DOMAIN report.sections :
              /\ ObjKeySet(report.sections[op].services) = UsableNames
              /\ \A k \in 1..Len(report.sections[op].services) :
                    Len(report.sections[op].services[k].value.rawTimes)
                       = config[op].iterations

C3_Witness ==
    /\ report.written
    /\ Len(services) = 3
    /\ Cardinality(InitFailed) = 1
    /\ Len(wallets) = 2
    /\ Len(report.sections[Operation].services) = 2

\* C4 (as claimed): when no provider is left with a usable wallet, the run
\* exits with code 1 and writes no report.
C4_NoUsableProviderFails ==
    (pc = "done" /\ Len(wallets) = 0) =>
        (exitCode = 1 /\ ~report.written)

\* C5: a run that has ended either wrote its results file and exited with
\* code 0, or exited with code 1 with an error at the top-level handler and
\* no results file; a run that has not ended has neither.
C5_ExactlyOneOutcome ==
    /\ pc = "done" =>
          \/ exitCode = 0 /\ report.written /\ error = NoError
          \/ exitCode = 1 /\ ~report.written /\ error # NoError
    /\ pc # "done" => (exitCode = NoExit /\ ~report.written)

C5_Witness ==
    /\ pc = "done"
    /\ exitCode = 1
    /\ variant = "comprehensive"
    /\ phase = 2
    /\ Len(serviceResults["message"]) >= 1
    /\ ~report.written

NonDegenerate(stats) ==
    /\ IsNumber(stats.min)
    /\ IsNumber(stats.max)
    /\ IsNumber(stats.mean)
    /\ IsNumber(stats.median)
    /\ IsNumber(stats.standardDeviation)
    /\ IsNumber(stats.p95)
    /\ IsNumber(stats.p99)

\* C6 (as claimed): calculateStats never returns a statistics object with
\* NaN, infinite or undefined fields, so none is ever stored.
C6_NoDegenerateStatistics ==
    \A op \in {"message", "transaction"} :
        \A k \in 1..Len(serviceResults[op]) :
            NonDegenerate(serviceResults[op][k].value)

Position(events, e) == CHOOSE k \in 1..Len(events) : events[k] = e

\* C7 (as claimed): in a measured transaction-signing iteration the block
\* hash is fetched and the transaction built before the timer starts, and
\* the signing request is the only call between start and end.
C7_OnlySigningIsTimed ==
    (/\ hpc \in {"measure", "returned"}
     /\ timed # <<>>
     /\ Operation = "transaction") =>
        /\ Position(timed, "getLatestBlockhash") < Position(timed, "start")
        /\ Position(timed, "buildTransaction") < Position(timed, "start")
        /\ SubSeq(timed, Position(timed, "start") + 1, Position(timed, "end") - 1)
              = <<"signTransaction">>

MeanOf(section, name) == ObjGet(section.services, name).statistics.mean

\* C8: in a written report with at least two providers, the rankings are a
\* permutation of the providers, ranks are 1..k in list order, meanTime is
\* each provider's mean and is non-decreasing; fastest is the first and has
\* the minimum mean, slowest is the last and has the maximum mean.
C8_RankingAscendingByMean ==
    report.written =>
        \A op \in DOMAIN report.sections :
            LET section == report.sections[op]
                k == Len(section.services)
                rankings == section.comparison.rankings
            IN  k >= 2 =>
                  /\ Len(rankings) = k
                  /\ {rankings[r].service : r \in 1..k} = ObjKeySet(section.services)
                  /\ \A r \in 1..k :
                        /\ rankings[r].rank = r
                        /\ rankings[r].meanTime = MeanOf(section, rankings[r].service)
                        /\ IsNumber(rankings[r].meanTime)
                  /\ \A r \in 1..(k - 1) :
                        NumLeq(rankings[r].meanTime, rankings[r + 1].meanTime)
                  /\ section.comparison.fastest = rankings[1].service
                  /\ section.comparison.slowest = rankings[k].service
                  /\ \A name \in ObjKeySet(section.services) :
                        /\ NumLeq(MeanOf(section, section.comparison.fastest),
                                  MeanOf(section, name))
                        /\ NumLeq(MeanOf(section, name),
                                  MeanOf(section, section.comparison.slowest))

C8_Witness ==
    /\ report.written
    /\ Len(report.sections[Operation].services) = 3
    /\ LET section == report.sections[Operation]
       IN  /\ section.comparison.rankings[1].service = section.services[3].key
           /\ section.comparison.rankings[3].service = section.services[1].key
           /\ NumLess(section.comparison.rankings[1].meanTime,
                      section.comparison.rankings[3].meanTime)

\* Provider names in the order JavaScript compares strings (by code unit).
NameOrder == <<"Coinbase", "Privy", "coinbase", "dfns", "fireblocks", "privy",
               "turnkey">>
LexLess(a, b) == Position(NameOrder, a) < Position(NameOrder, b)

\* C9 (as claimed): of two providers with equal mean, the one with the
\* lexicographically smaller name is ranked first.
C9_TiesBrokenByName ==
    report.written =>
        \A op \in DOMAIN report.sections :
            LET section == report.sections[op]
            IN  Len(section.services) >= 2 =>
                  \A r \in 1..(Len(section.comparison.rankings) - 1) :
                      NumEq(section.comparison.rankings[r].meanTime,
                            section.comparison.rankings[r + 1].meanTime)
                        => LexLess(section.comparison.rankings[r].service,
                                   section.comparison.rankings[r + 1].service)

ComparisonShape(section) ==
    IF Len(section.services) >= 2
    THEN DOMAIN section.comparison = {"fastest", "slowest", "rankings"}
    ELSE section.comparison = EmptyObject

\* C10: saveResults, reached with any number of providers, writes a report
\* whose comparison holds fastest, slowest and rankings when at least two
\* providers have results and is the empty object otherwise, and the run
\* then ends with exit code 0 (unless the file system refuses the write).
C10_ComparisonOnlyFromTwo ==
    [][pc = "save" =>
          \/ /\ report'.written
             /\ exitCode' = 0
             /\ \A op \in DOMAIN report'.sections :
                   /\ Len(report'.sections[op].services) = Len(serviceResults[op])
                   /\ ComparisonShape(report'.sections[op])
          \/ /\ error' = "write failed"
             /\ exitCode' = 1
             /\ ~report'.written]_vars

C10_Witness ==
    /\ report.written
    /\ exitCode = 0
    /\ Len(report.sections[Operation].services) = 1
    /\ report.sections[Operation].comparison = EmptyObject

\* The directories whose createWallet was called and threw.
WalletFailed ==
    {d \in ObjKeySet(initializedServices) :
        walletCalls[d] > 0 /\ ~ObjHas(wallets, d)}

\* C16: initializeService is called exactly once per discovered provider,
\* createWallet exactly once per initialized provider and never for one whose
\* initialization failed; a provider whose createWallet throws never gets a
\* signing call, and the createWallet step never ends the run.
C16_OneWalletPerInitializedProvider ==
    /\ [](/\ \A d \in DirSet :
                /\ initCalls[d] <= 1
                /\ walletCalls[d] <= 1
                /\ initCalls[d] > 0 => ObjHas(services, d)
                /\ walletCalls[d] > 0 => ObjHas(initializedServices, d)
                /\ signCalls[d] > 0 => ObjHas(wallets, d)
          /\ AfterInit =>
                \A k \in 1..Len(services) : initCalls[services[k].key] = 1
          /\ AfterWallets =>
                \A k \in 1..Len(initializedServices) :
                    walletCalls[initializedServices[k].key] = 1
          /\ \A d \in InitFailed \cup WalletFailed : signCalls[d] = 0)
    /\ [][pc = "wallet" =>
             /\ pc' \in {"wallet", "bench"}
             /\ exitCode' = NoExit
             /\ error' = NoError]_vars

C16_Witness ==
    /\ report.written
    /\ exitCode = 0
    /\ InitFailed # {}
    /\ WalletFailed # {}
    /\ \E d \in ObjKeySet(wallets) : signCalls[d] = CallsPerService(variant, config)
    /\ CallsPerService(variant, config) >= 2

RECURSIVE LoadedDirs(_)
\* The directories whose module loaded, in the order they were tried.
LoadedDirs(tried) ==
    IF tried = <<>> THEN <<>>
    ELSE IF Head(tried).loaded
         THEN <<Head(tried).dir>> \o LoadedDirs(Tail(tried))
         ELSE LoadedDirs(Tail(tried))

\* discoverServices has returned the mapping of a listed directory.
Discovered == pc \in {"init", "wallet", "bench", "display", "save"}
                 \/ (pc = "done" /\ imports # <<>>)

\* C17: an entry whose module fails to load is left out of the mapping, the
\* scan goes on with the next entry so that every loadable entry is
\* returned, and the run fails at discovery only if nothing loaded.
C17_LoadFailureSkipsEntry ==
    /\ ObjKeys(services) = LoadedDirs(imports)
    /\ Discovered =>
          [k \in 1..Len(imports) |-> imports[k].dir] = serviceDirs
    /\ error = "No services found" => LoadedDirs(imports) = <<>>

C17_Witness ==
    /\ pc = "init"
    /\ Len(imports) = 3
    /\ ~imports[2].loaded
    /\ ObjKeys(services) = <<serviceDirs[1], serviceDirs[3]>>

\* C18 (as claimed): every entry of the discovered mapping exposes the
\* required capability set, of which the model keeps the serviceName export;
\* an entry that loads without it is not in the mapping.
C18_DiscoveredEntriesExposeCapabilities ==
    \A k \in 1..Len(services) :
        services[k].value.serviceName # NoServiceName

\* The marker getGeoLocation returns when the lookup fails.
GeoMarker(geo) == ~geo.success /\ DOMAIN geo = {"success", "error"}

\* C19: the geolocation lookup never fails the run.  Whatever its outcome,
\* getGeoLocation returns a value (the marker {success: false, error} when
\* the lookup failed), the run goes on to discovery with nothing else
\* changed, and a saved report carries the returned value in geoLocation.
C19_GeoLookupNeverFatal ==
    /\ [](report.written => report.geoLocation = geoLocation)
    /\ [][pc = "geo" =>
            /\ geoLocation' \in GeoResults
            /\ ~geoLocation'.success => GeoMarker(geoLocation')
            /\ pc' = "discover"
            /\ exitCode' = NoExit
            /\ error' = NoError
            /\ UNCHANGED <<variant, config, serviceDirs, services,
                           initializedServices, wallets, serviceResults,
                           rawTimes, report>>]_vars

C19_Witness ==
    /\ report.written
    /\ exitCode = 0
    /\ GeoMarker(report.geoLocation)
    /\ report.geoLocation.error = "message"

\* The calls started so far, in order, and the signing calls among them.
Started(l) == SelectSeq(l, LAMBDA e : e.event = "start")
IsSign(e) == e.call \in {"message", "transaction"}
SignStarted(l) == SelectSeq(Started(l), IsSign)

\* How many of the calls in l are the operation call of the module dir.
CountCalls(l, call, dir) ==
    Len(SelectSeq(l, LAMBDA e : e.call = call /\ e.dir = dir))

\* Every call that was started has ended before the next one starts.
OneCallInFlight ==
    \A k \in 1..Len(log) :
        /\ (log[k].event = "start" /\ k < Len(log)) =>
              log[k + 1] = [log[k] EXCEPT !.event = "end"]
        /\ log[k].event = "end" => (k > 1 /\ log[k - 1].event = "start")

\* A signing call that starts either continues the harness run of the
\* latest signing call, or is the first call of its own run while the run
\* before it has made all its warm-up and measured calls.
ProviderAfterProvider ==
    LET before == SignStarted(log)
        after == SignStarted(log')
        new == after[Len(after)]
        last == before[Len(before)]
    IN  (Len(after) = Len(before) + 1 /\ before # <<>>) =>
            \/ (new.call = last.call /\ new.dir = last.dir)
            \/ /\ CountCalls(before, new.call, new.dir) = 0
               /\ CountCalls(before, last.call, last.dir)
                    = config[last.call].warmupIterations
                        + config[last.call].iterations

\* C22: execution is strictly sequential.  At most one external call
\* (geolocation lookup, module load, initializeService, createWallet,
\* signMessage, signTransaction, file write) is in flight, a call starts
\* only after the one before it has ended, and all warm-up and measured
\* calls of one provider are made before the first call of the next.
C22_StrictlySequential ==
    /\ []OneCallInFlight
    /\ [][ProviderAfterProvider]_vars

C22_Witness ==
    /\ report.written
    /\ exitCode = 0
    /\ variant = "comprehensive"
    /\ Len(SignStarted(log)) >= 4
    /\ \E j, k \in 1..Len(SignStarted(log)) :
          SignStarted(log)[j].dir # SignStarted(log)[k].dir

\* C23: with warmupIterations = W and iterations = N, the harness makes its
\* W warm-up calls before the first measured call, no warm-up call puts a
\* duration into the measurement, and a run that returns has made exactly
\* W + N calls, the measurement being the durations of the last N.
C23_WarmupThenMeasured ==
    /\ [](pc = "bench" =>
            /\ hpc = "warmup" =>
                  (Len(calls) = i /\ i <= W /\ times = <<>>)
            /\ hpc = "measure" =>
                  (Len(calls) = W + i /\ i <= N /\ Len(times) = i)
            /\ hpc = "returned" =>
                  (Len(calls) = W + N /\ times = SubSeq(calls, W + 1, W + N)))
    /\ [][(pc = "bench" /\ times' # times /\ times' # <<>>) =>
             (Len(calls) >= W /\ Len(times') = Len(times) + 1)]_vars

C23_Witness ==
    /\ hpc = "returned"
    /\ Operation = "message"
    /\ W = 1
    /\ N = 2
    /\ calls = <<2, 1, 1>>
    /\ times = <<1, 1>>

\* C25: every signMessage or signTransaction call goes to the module of a
\* provider with the wallet that this provider's createWallet returned in
\* this run, which carries the instance this provider's initializeService
\* returned; createWallet itself is given the provider's own instance.
C25_WalletStaysWithItsProvider ==
    \A k \in 1..Len(log) :
        /\ IsSign(log[k]) =>
              /\ ObjHas(wallets, log[k].dir)
              /\ log[k].wallet = ObjGet(wallets, log[k].dir)
              /\ log[k].wallet.id = log[k].dir
              /\ log[k].wallet.serviceInstance
                    = ObjGet(initializedServices, log[k].dir).instance
              /\ log[k].wallet.serviceInstance.owner = log[k].dir
        /\ log[k].call = "createWallet" =>
              log[k].wallet.serviceInstance.owner = log[k].dir

C25_Witness ==
    /\ report.written
    /\ Len(wallets) = 2
    /\ \E j, k \in 1..Len(log) :
          /\ IsSign(log[j])
          /\ IsSign(log[k])
          /\ log[j].wallet.id # log[k].wallet.id
          /\ log[j].wallet.serviceName = "Privy"

\* C28 (as claimed): in a written report every benchmarked provider has its
\* own entry: each operation's services section has as many entries as
\* there are providers with a wallet, also when two directories export the
\* same serviceName.
C28_OneEntryPerBenchmarkedProvider ==
    report.written =>
        \A op \in DOMAIN report.sections :
            Len(report.sections[op].services) = Len(wallets)

\* The wallet handed to the signing calls of the module dir for operation
\* op, as a set (one element when the same wallet is used throughout).
WalletsUsed(op, dir) ==
    {log[k].wallet : k \in {j \in 1..Len(log) :
                              log[j].call = op /\ log[j].dir = dir}}

\* No message-signing call starts after a transaction-signing call.
MessagesBeforeTransactions ==
    \A j, k \in 1..Len(SignStarted(log)) :
        (j < k /\ SignStarted(log)[j].call = "transaction")
            => SignStarted(log)[k].call = "transaction"

\* C29: in the comprehensive script every usable provider has made all its
\* message-signing calls before the first transaction-signing call starts,
\* a provider gets the same wallet in both phases, a written report has the
\* same providers under both operations, and when a transaction-signing
\* call throws nothing is written although message results exist.
C29_MessagePhaseThenTransactionPhase ==
    /\ [](variant = "comprehensive" =>
            /\ MessagesBeforeTransactions
            /\ \A d \in ObjKeySet(wallets) :
                  Cardinality(WalletsUsed("message", d)
                                \cup WalletsUsed("transaction", d)) <= 1
            /\ report.written =>
                  ObjKeySet(report.sections["message"].services)
                    = ObjKeySet(report.sections["transaction"].services)
            /\ (hpc = "threw" /\ Operation = "transaction") =>
                  (report = NoReport /\ exitCode = 1
                     /\ Len(serviceResults["message"])
                          >= Len(serviceResults["transaction"])))
    /\ [][(variant = "comprehensive"
             /\ Len(SelectSeq(log', LAMBDA e : e.call = "transaction"))
                  > Len(SelectSeq(log, LAMBDA e : e.call = "transaction"))) =>
            \A d \in ObjKeySet(wallets) :
                CountCalls(Started(log), "message", d)
                  = config["message"].warmupIterations
                      + config["message"].iterations]_vars

C29_Witness ==
    /\ variant = "comprehensive"
    /\ report.written
    /\ Len(report.sections["message"].services) = 2
    /\ ObjKeySet(report.sections["transaction"].services) = {"turnkey", "Privy"}
    /\ CountCalls(Started(log), "transaction", "privy") = 1
    /\ CountCalls(Started(log), "message", "privy") = 2

\* C30: when every external call eventually returns or throws, the run
\* terminates: it reaches the end with the report written and exit code 0,
\* or it exits with code 1.
C30_RunTerminates ==
    <>(pc = "done"
         /\ \/ exitCode = 1 /\ ~report.written
            \/ exitCode = 0 /\ report.written)

C30_Witness ==
    /\ pc = "done"
    /\ exitCode = 0
    /\ report.written
    /\ Len(serviceDirs) = 3
    /\ Len(wallets) = 3
    /\ \A d \in ObjKeySet(wallets) : signCalls[d] = 2

(***************************************************************************)
(* Properties of calculateStats.                                           *)
(***************************************************************************)
AllEqual(s) == \A j, k \in 1..Len(s) : NumEq(s[j], s[k])

\* C11 (as claimed): for every non-empty array of durations the result of
\* calculateStats has min <= median <= max and min <= mean <= max.
C11_CentralValuesWithinRange ==
    (sampleStats.computed /\ Len(sample) >= 1) =>
        LET r == sampleStats.result
        IN  /\ NumLeq(r.min, r.median)
            /\ NumLeq(r.median, r.max)
            /\ NumLeq(r.min, r.mean)
            /\ NumLeq(r.mean, r.max)

\* C12 (as claimed): for every non-empty array the standard deviation is
\* the population one, is >= 0, and is 0 exactly when all values are equal.
C12_DeviationZeroIffAllEqual ==
    (sampleStats.computed /\ Len(sample) >= 1) =>
        LET r == sampleStats.result
            mean == Div(SumSeq(sample), Len(sample))
        IN  /\ r.standardDeviation
                 = Sqrt(Div(SumSquares(sample, mean), Len(sample)))
            /\ NumLeq(Number(0, 1), r.standardDeviation)
            /\ NumEq(r.standardDeviation, Number(0, 1)) <=> AllEqual(sample)

\* The measurement [10, 20, 20, 30, 100].
Scenario == Millis(<<10, 20, 20, 30, 100>>)

\* x, written with two decimals, is h / 100:
\* (h - 0.5) / 100 <= x <= (h + 0.5) / 100, for x.e <= 0.
RoundsToHundredths(x, h) ==
    /\ IsNumber(x)
    /\ x.e <= 0
    /\ (2 * h - 1) * Pow2(0 - x.e) <= 200 * x.m
    /\ 200 * x.m <= (2 * h + 1) * Pow2(0 - x.e)

ScenarioValues(r) ==
    /\ NumEq(r.min, Number(10, 1))
    /\ NumEq(r.max, Number(100, 1))
    /\ NumEq(r.mean, Number(36, 1))
    /\ NumEq(r.median, Number(20, 1))
    /\ PercentileIndex(5, P95) = 4
    /\ NumEq(r.p95, Number(100, 1))
    /\ PercentileIndex(5, P99) = 4
    /\ NumEq(r.p99, Number(100, 1))

\* C13 (amended): for [10, 20, 20, 30, 100] calculateStats returns min 10,
\* max 100, mean 36, median 20, p95 = p99 = 100 (sorted index 4), and a
\* standard deviation of 32.62 to two decimals (the square root of 1064).
C13_ScenarioStatistics ==
    (sampleStats.computed /\ sample = Scenario) =>
        /\ ScenarioValues(sampleStats.result)
        /\ RoundsToHundredths(sampleStats.result.standardDeviation, 3262)

C13_Witness ==
    /\ sampleStats.computed
    /\ sample = Scenario
    /\ NumEq(sampleStats.result.max, Number(100, 1))

\* C13 (as claimed): the same with a standard deviation of 32.19.
C13_ScenarioAsClaimed ==
    (sampleStats.computed /\ sample = Scenario) =>
        /\ ScenarioValues(sampleStats.result)
        /\ RoundsToHundredths(sampleStats.result.standardDeviation, 3219)

\* C24: for a non-empty array of length n with ascending-sorted copy s, the
\* median is (s[n/2 - 1] + s[n/2]) / 2 when n is even and s[(n - 1)/2] when
\* n is odd (indices from 0), and it lies between the two middle values;
\* for n = 1 min, max, mean, median, p95 and p99 are the single value and
\* the standard deviation is 0.
C24_MedianAndSingleValue ==
    (sampleStats.computed /\ Len(sample) >= 1) =>
        LET r == sampleStats.result
            n == Len(sample)
            s == SortAsc(sample)
        IN  /\ n % 2 = 0 =>
                  /\ r.median = Div(Add(s[n \div 2], s[n \div 2 + 1]), 2)
                  /\ NumLeq(s[n \div 2], r.median)
                  /\ NumLeq(r.median, s[n \div 2 + 1])
            /\ n % 2 = 1 => r.median = s[(n - 1) \div 2 + 1]
            /\ n = 1 =>
                  /\ \A f \in {"min", "max", "mean", "median", "p95", "p99"} :
                        r[f] = sample[1]
                  /\ r.standardDeviation = Number(0, 1)

C24_Witness ==
    /\ sampleStats.computed
    /\ sample = Millis(<<10, 100, 30, 20>>)
    /\ sampleStats.result.median = Number(25, 1)

IndexChain ==
    \A n \in 1..MaxLength :
        /\ n \div 2 <= PercentileIndex(n, P95)
        /\ PercentileIndex(n, P95) <= PercentileIndex(n, P99)
        /\ PercentileIndex(n, P99) <= n - 1

\* C27: the percentile indices are ordered as in IndexChain, and for every
\* non-empty array the statistics satisfy median <= p95 <= p99 <= max, the
\* percentiles being the elements of the sorted copy at those indices.
C27_PercentilesOrdered ==
    (sampleStats.computed /\ Len(sample) >= 1) =>
        LET r == sampleStats.result
            n == Len(sample)
            s == SortAsc(sample)
        IN  /\ IndexChain
            /\ r.p95 = s[PercentileIndex(n, P95) + 1]
            /\ r.p99 = s[PercentileIndex(n, P99) + 1]
            /\ NumLeq(r.median, r.p95)
            /\ NumLeq(r.p95, r.p99)
            /\ NumLeq(r.p99, r.max)

C27_Witness ==
    /\ sampleStats.computed
    /\ Len(sample) = 21
    /\ NumLess(sampleStats.result.median, sampleStats.result.p95)
    /\ NumLess(sampleStats.result.p95, sampleStats.result.p99)
    /\ NumEq(sampleStats.result.p99, sampleStats.result.max)

(***************************************************************************)
(* Properties of the percentile indices.                                   *)
(***************************************************************************)
\* C14: for every length n >= 1 the p95 index Math.floor(n * 0.95) satisfies
\* 0 <= index < n, so p95 is an element of the sorted array.
C14_P95IndexWithinArray ==
    (indices.computed /\ length >= 1) =>
        /\ 0 <= indices.p95
        /\ indices.p95 < length
        /\ \A sorted \in [1..length -> {Number(1, 1)}] :
              Percentile(sorted, P95) # Undefined

C14_Witness ==
    /\ indices.computed
    /\ length = 100
    /\ indices.p95 = 95

\* C15 (amended): for every length n >= 1 the p99 index Math.floor(n * 0.99)
\* satisfies 0 <= index < n; p99 is never read past the end of a non-empty
\* sorted array (only the empty array has index = n = 0).
C15_P99IndexWithinArray ==
    /\ (indices.computed /\ length >= 1) =>
          /\ 0 <= indices.p99
          /\ indices.p99 < length
    /\ (indices.computed /\ length = 0) => indices.p99 = length

C15_Witness ==
    /\ indices.computed
    /\ length = 100
    /\ indices.p99 = 99

\* C15 (as claimed): some length n >= 1 has the p99 index equal to n
\* (looked at once the indices of the current length are computed).
C15_SomeLengthReadsPastEnd ==
    indices.computed =>
        \E n \in 1..MaxLength : PercentileIndex(n, P99) = n

(***************************************************************************)
(* Properties of saveResults.                                              *)
(***************************************************************************)
\* C20 (as claimed): whichever script saves a report, the file is inside the
\* results directory, which exists by then, and no file is written anywhere
\* else.
C20_ReportsInsideResultsDirectory ==
    /\ \A f \in files : f.dir = ResultsDir
    /\ saveState = "saved" =>
          /\ ResultsDir \in directories
          /\ [dir |-> ResultsDir, name |-> Filename] \in files

(***************************************************************************)
(* Properties of the legacy scripts.                                       *)
(***************************************************************************)
MissingCredential == ~(RequiredVars(legacyScript) \subseteq env)

\* C21: when a required credential variable is missing, a legacy script
\* gets no further than its credential check: it creates no wallet, makes no
\* signing call, and ends with exit code 1.
C21_MissingCredentialAborts ==
    (lpc # "idle" /\ MissingCredential) =>
        /\ lpc \in {"start", "clients", "done"}
        /\ legacyWallets = <<>>
        /\ legacyCalls = 0
        /\ lpc = "done" => legacyExit = 1

C21_Witness ==
    /\ legacyScript = "benchmark.js (1)"
    /\ TurnkeyVars \subseteq env
    /\ "PRIVY_APP_ID" \in env
    /\ "PRIVY_APP_SECRET" \notin env
    /\ lpc = "done"
    /\ legacyExit = 1

====
